---------------------------- MODULE Spec2Model ----------------------------
(***************************************************************************)
(* lufasu: a Monte-Carlo path tracer (src/src/geometry.rs, material.rs,    *)
(* main.rs).                                                               *)
(*                                                                         *)
(* Arithmetic.  The program computes in f32.  The model computes in exact  *)
(* integers and fractions on inputs for which f32 is exact as well: points *)
(* with small integer coordinates, directions along a coordinate axis,     *)
(* integer radii, and spheres for which the discriminant is negative or a  *)
(* perfect square (ExactSphere).  On these inputs every square root, every *)
(* division and every normalisation the code performs has an exact result, *)
(* so the model's value is the program's value.                            *)
(*   - a vector is a 3-tuple of integers; NaNVec is a vector whose         *)
(*     components are NaN (the result of normalising the zero vector);     *)
(*   - a scalar bound (t_min, t_max, best_t, a probability) is a fraction  *)
(*     <<num, den>> with den >= 0; <<1, 0>> is +infinity;                  *)
(*   - a colour is <<r, g, b, den>>, the three channels over a common      *)
(*     denominator; NaNColor is a colour whose channels are NaN.           *)
(***************************************************************************)
EXTENDS Integers, Sequences, FiniteSets

VARIABLES
    \* HittableList::hits / Sphere::hits applied to drawn inputs
    hittables, ray, t_min, t_max, hit, hpc,
    \* Material::scatter applied to drawn inputs
    material, in_ray, hit_record, outcome, spc,
    \* color(): the recursion as a stack of activation frames
    world, stack, pc, retval,
    \* build profile: debug_assert! is compiled in only when TRUE
    debug,
    \* render_into(): one worker per row
    rpc, wpc, temp, col, buf, buf_mutex, writes

hitVars == <<hittables, ray, t_min, t_max, hit, hpc>>
scatterVars == <<material, in_ray, hit_record, outcome, spc>>
colorVars == <<world, stack, pc, retval>>
renderVars == <<rpc, wpc, temp, col, buf, buf_mutex, writes>>
vars == <<hitVars, scatterVars, colorVars, debug, renderVars>>

-----------------------------------------------------------------------------
(* Vector3<f32> on the integer lattice *)

Zero == <<0, 0, 0>>
NaNVec == << >>
IsNaNVec(v) == v = NaNVec

VAdd(a, b) == <<a[1] + b[1], a[2] + b[2], a[3] + b[3]>>
VSub(a, b) == <<a[1] - b[1], a[2] - b[2], a[3] - b[3]>>
VScale(k, a) == <<k * a[1], k * a[2], k * a[3]>>
VNeg(a) == VScale(-1, a)
VDiv(a, k) == <<a[1] \div k, a[2] \div k, a[3] \div k>>
Dot(a, b) == a[1] * b[1] + a[2] * b[2] + a[3] * b[3]

Sgn(x) == IF x > 0 THEN 1 ELSE IF x < 0 THEN -1 ELSE 0
\* v / |v|.  For the zero vector the division is 0/0 in every component.
Normalize(v) == IF v = Zero THEN NaNVec ELSE <<Sgn(v[1]), Sgn(v[2]), Sgn(v[3])>>

AxisDirs == {<<1, 0, 0>>, <<-1, 0, 0>>, <<0, 1, 0>>, <<0, -1, 0>>,
             <<0, 0, 1>>, <<0, 0, -1>>}

-----------------------------------------------------------------------------
(* f32 scalars used as bounds: fractions, with +infinity *)

Fr(n) == <<n, 1>>
INFINITY == <<1, 0>>
FLt(a, b) == a[1] * b[2] < b[1] * a[2]
FLe(a, b) == a[1] * b[2] <= b[1] * a[2]

IsSquare(n) == \E r \in 0..n : r * r = n
Sqrt(n) == CHOOSE r \in 0..n : r * r = n

RECURSIVE Pow(_, _)
Pow(x, n) == IF n = 0 THEN 1 ELSE x * Pow(x, n - 1)

-----------------------------------------------------------------------------
(* geometry.rs *)

None == [some |-> FALSE]

\* Ray::new: debug_assert!(direction.magnitude() != 0.0), then normalise.
RayNewPanics(direction, dbg) == dbg /\ direction = Zero
Ray_new(origin, direction) ==
    [origin |-> origin, direction |-> Normalize(direction)]

Ray_at(r, t) == VAdd(r.origin, VScale(t, r.direction))

\* Sphere::hits with the range closed at t_max: `t <= t_max` for `t < t_max`.
Sphere_hitsClosedRange(self, r, tmin, tmax) ==
    IF IsNaNVec(r.direction) THEN None
    ELSE
    LET axis == VSub(r.origin, self.center)
        b == 2 * Dot(axis, r.direction)
        c == Dot(axis, axis) - self.radius * self.radius
        discriminant == b * b - 4 * c
        Root(sign) == (-b + Sqrt(discriminant) * sign) \div 2
        InRange(t) == FLe(tmin, Fr(t)) /\ FLe(Fr(t), tmax)
        Rec(t) == LET pos == Ray_at(r, t)
                  IN  [some |-> TRUE, t |-> t, pos |-> pos,
                       normal |-> VDiv(VSub(pos, self.center), self.radius),
                       material |-> self.material]
    IN  IF discriminant >= 0
        THEN IF InRange(Root(-1)) THEN Rec(Root(-1))
             ELSE IF InRange(Root(1)) THEN Rec(Root(1))
             ELSE None
        ELSE None

\* Sphere::hits.  With a NaN direction b and the discriminant are NaN and
\* `discriminant >= 0.0` is false.
Sphere_hits(self, r, tmin, tmax) ==
    IF IsNaNVec(r.direction) THEN None
    ELSE
    LET axis == VSub(r.origin, self.center)
        b == 2 * Dot(axis, r.direction)
        c == Dot(axis, axis) - self.radius * self.radius
        discriminant == b * b - 4 * c
        Root(sign) == (-b + Sqrt(discriminant) * sign) \div 2
        InRange(t) == FLe(tmin, Fr(t)) /\ FLt(Fr(t), tmax)
        Rec(t) == LET pos == Ray_at(r, t)
                  IN  [some |-> TRUE, t |-> t, pos |-> pos,
                       normal |-> VDiv(VSub(pos, self.center), self.radius),
                       material |-> self.material]
    IN  IF discriminant >= 0
        THEN IF InRange(Root(-1)) THEN Rec(Root(-1))
             ELSE IF InRange(Root(1)) THEN Rec(Root(1))
             ELSE None
        ELSE None

\* The sphere/ray pairs on which Sphere::hits is exact in f32 and in the model.
ExactSphere(self, r) ==
    LET axis == VSub(r.origin, self.center)
        b == 2 * Dot(axis, r.direction)
        c == Dot(axis, axis) - self.radius * self.radius
        discriminant == b * b - 4 * c
    IN  discriminant < 0
        \/ /\ IsSquare(discriminant)
           /\ \A sign \in {-1, 1} :
                LET t == (-b + Sqrt(discriminant) * sign) \div 2
                    d == VSub(Ray_at(r, t), self.center)
                IN  \A i \in 1..3 : d[i] % self.radius = 0

\* The body of the loop without `best_t = rec.t`: the bound is never narrowed.
ScanStepKeepsBound(acc, hittable, r, tmin) ==
    LET rec == Sphere_hits(hittable, r, tmin, acc.best_t)
    IN  IF rec.some /\ FLt(Fr(rec.t), acc.best_t)
        THEN [best_rec |-> rec, best_t |-> acc.best_t]
        ELSE acc

\* The body of the loop of HittableList::hits: one primitive against the best so far.
ScanStep(acc, hittable, r, tmin) ==
    LET rec == Sphere_hits(hittable, r, tmin, acc.best_t)
    IN  IF rec.some /\ FLt(Fr(rec.t), acc.best_t)
        THEN [best_rec |-> rec, best_t |-> Fr(rec.t)]
        ELSE acc

\* The loop visiting the primitives from the last to the first.
RECURSIVE ScanReversed(_, _, _, _, _)
ScanReversed(hs, i, acc, r, tmin) ==
    IF i > Len(hs) THEN acc
    ELSE ScanReversed(hs, i + 1, ScanStep(acc, hs[Len(hs) + 1 - i], r, tmin), r, tmin)

\* `for hittable in &self.hittables`: the primitives in list order.
RECURSIVE Scan(_, _, _, _, _)
Scan(hs, i, acc, r, tmin) ==
    IF i > Len(hs) THEN acc
    ELSE Scan(hs, i + 1, ScanStep(acc, hs[i], r, tmin), r, tmin)

\* HittableList::hits
HittableList_hits(hs, r, tmin, tmax) ==
    Scan(hs, 1, [best_rec |-> None, best_t |-> tmax], r, tmin).best_rec

-----------------------------------------------------------------------------
(* palette::LinSrgb over a common denominator *)

NaNColor == << >>
IsNaNColor(c) == c = NaNColor
Black == <<0, 0, 0, 1>>

\* attenuation * colour, channel by channel; anything times NaN is NaN.
ColorMul(a, c) ==
    IF IsNaNColor(a) \/ IsNaNColor(c) THEN NaNColor
    ELSE <<a[1] * c[1], a[2] * c[2], a[3] * c[3], a[4] * c[4]>>

\* a <= b in every channel; a comparison with NaN is false.
ColorLe(a, b) ==
    /\ ~IsNaNColor(a)
    /\ ~IsNaNColor(b)
    /\ \A i \in 1..3 : a[i] * b[4] <= b[i] * a[4]

\* Mix::mix: self + (other - self) * clamp(factor, 0, 1); factor is a fraction.
Mix(a, b, factor) ==
    LET f == IF FLt(factor, Fr(0)) THEN Fr(0)
             ELSE IF FLt(Fr(1), factor) THEN Fr(1) ELSE factor
        Ch(i) == a[i] * b[4] * f[2] + (b[i] * a[4] - a[i] * b[4]) * f[1]
    IN  <<Ch(1), Ch(2), Ch(3), a[4] * b[4] * f[2]>>

-----------------------------------------------------------------------------
(* material.rs *)

Lambertian(albedo) == [kind |-> "Lambertian", albedo |-> albedo]
Metal(albedo, fuzz) == [kind |-> "Metal", albedo |-> albedo, fuzz |-> fuzz]
Dielectric(index) == [kind |-> "Dielectric", index |-> index]

\* Option<Scattering>, or the panic that unwinds out of scatter.
Scattered(attenuation, scattered) ==
    [some |-> TRUE, panic |-> FALSE, attenuation |-> attenuation, scattered |-> scattered]
Absorbed == [some |-> FALSE, panic |-> FALSE]
\* why: "debug_assert" (Ray::new) or "gen_bool" (the probability is out of range).
Panicked(why) == [some |-> FALSE, panic |-> TRUE, why |-> why]

\* reflect: v - 2 (v . n) n
Reflect(v, normal) == VSub(v, VScale(2 * Dot(v, normal), normal))

\* refract, for a fraction index_ratio = <<rn, rd>>.  v is a unit vector, so
\* v.normalize() is v.  The discriminant is dn / rd^2 and its root Sqrt(dn) / rd.
Refract(v, normal, index_ratio) ==
    LET rn == index_ratio[1]
        rd == index_ratio[2]
        v_norm == Normalize(v)
        cos_theta == Dot(v_norm, normal)
        dn == rd * rd - rn * rn * (1 - cos_theta * cos_theta)
    IN  IF dn > 0
        THEN [some |-> TRUE,
              v |-> VDiv(VSub(VScale(rn, VSub(v_norm, VScale(cos_theta, normal))),
                              VScale(Sqrt(dn), normal)), rd)]
        ELSE None

\* Dielectric::schlick for index = <<p, q>> and cosine = <<cn, cd>>, as a fraction:
\* r0 = ((q - p) / (q + p))^2, r0 + (1 - r0) (1 - cosine)^5.
Schlick(self, cosine) ==
    LET p == self.index[1]
        q == self.index[2]
        r0n == (q - p) * (q - p)
        r0d == (q + p) * (q + p)
        cn == cosine[1]
        cd == cosine[2]
    IN  <<r0n * Pow(cd, 5) + (r0d - r0n) * Pow(cd - cn, 5), r0d * Pow(cd, 5)>>

\* rng.gen_bool(p) panics unless 0 <= p <= 1.
GenBoolPanics(p) == FLt(p, Fr(0)) \/ FLt(Fr(1), p)
\* The values gen_bool(p) can return: true with probability p.
GenBoolCan(p, coin) == IF coin THEN FLt(Fr(0), p) ELSE FLt(p, Fr(1))

\* Lambertian::scatter; sample is the draw from UnitSphere.
Lambertian_scatter(self, r, rec, sample, dbg) ==
    LET direction == VAdd(rec.normal, sample)
    IN  IF RayNewPanics(direction, dbg) THEN Panicked("debug_assert")
        ELSE Scattered(self.albedo, Ray_new(rec.pos, direction))

\* Metal::scatter.  fuzz is a fraction <<fn, fd>>; the vector handed to Ray::new is
\* written fd times as long, which Ray::new normalises to the same direction.
Metal_scatter(self, r, rec, sample, dbg) ==
    LET normal == rec.normal
        reflected == VAdd(VScale(self.fuzz[2], Reflect(r.direction, normal)),
                          VScale(self.fuzz[1], sample))
        scattered == Ray_new(rec.pos, reflected)
    IN  IF RayNewPanics(reflected, dbg) THEN Panicked("debug_assert")
        ELSE IF IsNaNVec(scattered.direction) THEN Absorbed
        ELSE IF Dot(scattered.direction, normal) > 0
             THEN Scattered(self.albedo, scattered)
             ELSE Absorbed

\* The first half of Dielectric::scatter: the refraction and the reflectance.
DielectricSetup(self, r, rec) ==
    LET normal == rec.normal
        dn == Dot(r.direction, normal)
        outward_normal == IF dn > 0 THEN VNeg(normal) ELSE normal
        index_ratio == IF dn > 0 THEN self.index ELSE <<self.index[2], self.index[1]>>
        cosine == IF dn > 0 THEN <<self.index[1] * dn, self.index[2]>> ELSE Fr(-dn)
    IN  [refracted |-> Refract(r.direction, outward_normal, index_ratio),
         reflectance |-> Schlick(self, cosine)]

\* Dielectric::scatter; coin is what gen_bool returns when it is called.
Dielectric_scatter(self, r, rec, coin, dbg) ==
    LET s == DielectricSetup(self, r, rec)
        direction == IF s.refracted.some
                     THEN IF coin THEN Reflect(r.direction, rec.normal)
                          ELSE s.refracted.v
                     ELSE Reflect(r.direction, rec.normal)
    IN  IF s.refracted.some /\ GenBoolPanics(s.reflectance) THEN Panicked("gen_bool")
        ELSE IF RayNewPanics(direction, dbg) THEN Panicked("debug_assert")
        ELSE Scattered(<<1, 1, 1, 1>>, Ray_new(rec.pos, direction))

\* What the random source hands to one call of scatter.
DrawAllowed(self, r, rec, draw) ==
    IF self.kind = "Dielectric"
    THEN LET s == DielectricSetup(self, r, rec)
         IN  s.refracted.some /\ ~GenBoolPanics(s.reflectance)
                => GenBoolCan(s.reflectance, draw.coin)
    ELSE TRUE

\* enum_dispatch of Material::scatter over MaterialEnum.
Material_scatter(self, r, rec, draw, dbg) ==
    IF self.kind = "Lambertian" THEN Lambertian_scatter(self, r, rec, draw.sample, dbg)
    ELSE IF self.kind = "Metal" THEN Metal_scatter(self, r, rec, draw.sample, dbg)
    ELSE Dielectric_scatter(self, r, rec, draw.coin, dbg)

-----------------------------------------------------------------------------
(* Inputs *)

\* The longest list of primitives drawn.
MaxSpheres == 3
\* const BOUNCES (main.rs:22).  The source sets 50; the recursion is checked for a
\* small limit, which the nesting of calls has to reach and stop at in the same way.
BOUNCES == 4

Gray == <<1, 1, 1, 2>>
Brown == <<4, 2, 1, 10>>
Bronze == <<7, 6, 5, 10>>
White == <<1, 1, 1, 1>>
SkyBlue == <<5, 7, 10, 10>>

Idle == "idle"

\* Sphere and ray inputs of the intersection queries: along the x axis, with a
\* tangent sphere, a missed sphere, a sphere around the origin, and two spheres
\* whose nearer roots coincide.
HitSpheres ==
    { [center |-> <<3, 0, 0>>, radius |-> 1, material |-> Lambertian(Gray)],
      [center |-> <<4, 0, 0>>, radius |-> 2, material |-> Metal(Bronze, <<0, 1>>)],
      [center |-> <<4, 0, 0>>, radius |-> 2, material |-> Lambertian(Gray)],
      [center |-> <<3, 0, 0>>, radius |-> 2, material |-> Dielectric(<<3, 2>>)],
      [center |-> <<-3, 0, 0>>, radius |-> 1, material |-> Lambertian(Brown)],
      [center |-> <<3, 1, 0>>, radius |-> 1, material |-> Metal(Bronze, <<0, 1>>)],
      [center |-> <<3, 3, 0>>, radius |-> 1, material |-> Lambertian(Gray)],
      [center |-> <<0, 0, 0>>, radius |-> 2, material |-> Lambertian(Brown)] }
HitRays == {Ray_new(Zero, d) : d \in {<<1, 0, 0>>, <<-1, 0, 0>>}}
HitTMin == {<<1, 1000>>, Fr(3)}
HitTMax == {Fr(2), Fr(5), INFINITY}

SeqsUpTo(S, n) == UNION {[1..k -> S] : k \in 0..n}

-----------------------------------------------------------------------------
(* SpecHits: Sphere::hits and HittableList::hits on drawn inputs *)

HitsIdle ==
    /\ hittables = Idle /\ ray = Idle /\ t_min = Idle /\ t_max = Idle
    /\ hit = Idle /\ hpc = Idle
ScatterIdle ==
    /\ material = Idle /\ in_ray = Idle /\ hit_record = Idle /\ outcome = Idle
    /\ spc = Idle
ColorIdle == world = Idle /\ stack = Idle /\ pc = Idle /\ retval = Idle
RenderIdle ==
    /\ rpc = Idle /\ wpc = Idle /\ temp = Idle /\ col = Idle /\ buf = Idle
    /\ buf_mutex = Idle /\ writes = Idle

InitHits ==
    /\ hittables \in SeqsUpTo(HitSpheres, MaxSpheres)
    /\ ray \in HitRays
    /\ \A i \in 1..Len(hittables) : ExactSphere(hittables[i], ray)
    /\ t_min \in HitTMin
    /\ t_max \in HitTMax
    /\ hit = None
    /\ hpc = [op |-> "input"]
    /\ ScatterIdle /\ ColorIdle /\ RenderIdle /\ debug = Idle

\* One call of HittableList::hits.
ListHits ==
    /\ hpc.op = "input"
    /\ hit' = HittableList_hits(hittables, ray, t_min, t_max)
    /\ hpc' = [op |-> "list"]
    /\ UNCHANGED <<hittables, ray, t_min, t_max, scatterVars, colorVars, debug, renderVars>>

\* One call of Sphere::hits on the i-th primitive.
SphereHits(i) ==
    /\ hpc.op = "input"
    /\ hit' = Sphere_hits(hittables[i], ray, t_min, t_max)
    /\ hpc' = [op |-> "sphere", i |-> i]
    /\ UNCHANGED <<hittables, ray, t_min, t_max, scatterVars, colorVars, debug, renderVars>>

NextHits == ListHits \/ \E i \in 1..Len(hittables) : SphereHits(i)

SpecHits == InitHits /\ [][NextHits]_vars

\* What each primitive alone returns for the query.
AloneHit(i) == Sphere_hits(hittables[i], ray, t_min, t_max)
Struck == {i \in 1..Len(hittables) : AloneHit(i).some}

\* C1: HittableList::hits returns the nearest hit: if some primitive has a hit in
\* [t_min, t_max) the returned record has the least such t over all primitives,
\* wherever they stand in the list; if none has, it returns none.
C1_NearestHit ==
    hpc.op = "list" =>
        IF Struck = {} THEN ~hit.some
        ELSE /\ hit.some
             /\ \A i \in Struck : hit.t <= AloneHit(i).t
             /\ \E i \in Struck : hit.t = AloneHit(i).t

\* A farther primitive stands before a nearer one and the nearer one is returned.
C1_Witness ==
    /\ hpc.op = "list"
    /\ hit.some
    /\ \E i, j \in Struck : i < j /\ AloneHit(j).t < AloneHit(i).t /\ hit.t = AloneHit(j).t

\* The parameters t at which the ray is on the sphere, found by trying each one.
TRange == -12..12
OnSphere(self, r, t) ==
    LET d == VSub(Ray_at(r, t), self.center)
    IN  Dot(d, d) = self.radius * self.radius
RootsInRange(self, r, tmin, tmax) ==
    {t \in TRange : OnSphere(self, r, t) /\ FLe(tmin, Fr(t)) /\ FLt(Fr(t), tmax)}
Least(S) == CHOOSE t \in S : \A u \in S : t <= u

\* C2: Sphere::hits returns none when no root of the quadratic lies in
\* [t_min, t_max) (in particular when there is no root), and otherwise the smaller
\* root if it is in the range, else the larger; the record has t_min <= t < t_max,
\* pos = ray.at(t) and normal = (pos - center) / radius.
C2_SphereHits ==
    hpc.op = "sphere" =>
        LET self == hittables[hpc.i]
            roots == RootsInRange(self, ray, t_min, t_max)
        IN  IF roots = {} THEN hit = None
            ELSE /\ hit.some
                 /\ hit.t = Least(roots)
                 /\ FLe(t_min, Fr(hit.t)) /\ FLt(Fr(hit.t), t_max)
                 /\ hit.pos = Ray_at(ray, hit.t)
                 /\ VScale(self.radius, hit.normal) = VSub(hit.pos, self.center)
                 /\ hit.material = self.material

\* The smaller root is outside the range and the larger root is returned.
C2_Witness ==
    /\ hpc.op = "sphere"
    /\ hit.some
    /\ \E t \in TRange : t < hit.t /\ OnSphere(hittables[hpc.i], ray, t)

\* The accumulator of the scan after the first k primitives.
ScanPrefix(k) ==
    Scan(SubSeq(hittables, 1, k), 1, [best_rec |-> None, best_t |-> t_max], ray, t_min)

\* C8: when several primitives are hit at the same least t, the record returned is
\* that of the first of them in list order, and a later primitive replaces the best
\* hit so far only if its t is strictly smaller.
C8_FirstWinsTies ==
    hpc.op = "list" =>
        /\ hit.some =>
             LET first == CHOOSE i \in Struck :
                              /\ AloneHit(i).t = hit.t
                              /\ \A j \in Struck : AloneHit(j).t = hit.t => i <= j
             IN  hit = AloneHit(first)
        /\ \A k \in 1..Len(hittables) :
             ScanPrefix(k).best_rec # ScanPrefix(k - 1).best_rec
                => FLt(Fr(ScanPrefix(k).best_rec.t), ScanPrefix(k - 1).best_t)

\* Two primitives with different materials are hit at the same least t.
C8_Witness ==
    /\ hpc.op = "list"
    /\ hit.some
    /\ \E i, j \in Struck :
          /\ i < j
          /\ AloneHit(i).t = hit.t /\ AloneHit(j).t = hit.t
          /\ AloneHit(i).material # AloneHit(j).material
          /\ hit.material = AloneHit(i).material

-----------------------------------------------------------------------------
(* SpecScatter: Material::scatter on drawn inputs *)

ScatterMaterials ==
    { Lambertian(Gray), Lambertian(Brown),
      Metal(Bronze, <<0, 1>>), Metal(Bronze, <<1, 2>>),
      Metal(Bronze, <<1, 1>>), Metal(Bronze, <<2, 1>>),
      Dielectric(<<3, 2>>), Dielectric(<<2, 1>>), Dielectric(<<1, 2>>) }

\* The draws on the line of the normal: the two points of the unit sphere for
\* which the scattered direction stays on a coordinate axis.
Draws(rec) ==
    [sample : {rec.normal, VNeg(rec.normal)}, coin : BOOLEAN]

\* A ray at normal incidence: it meets the surface from outside (d = -n) or from
\* inside (d = n).
InitScatter ==
    /\ material \in ScatterMaterials
    /\ \E d \in AxisDirs, n \in AxisDirs :
          /\ n \in {d, VNeg(d)}
          /\ in_ray = Ray_new(VScale(-2, d), d)
          /\ hit_record = [some |-> TRUE, t |-> 2, pos |-> Zero, normal |-> n,
                           material |-> material]
    /\ debug \in BOOLEAN
    /\ outcome = Absorbed
    /\ spc = [op |-> "input"]
    /\ HitsIdle /\ ColorIdle /\ RenderIdle

\* One call of hit_record.material.scatter(ray, &hit_record, rng).
Scatter(draw) ==
    /\ spc.op = "input"
    /\ DrawAllowed(material, in_ray, hit_record, draw)
    /\ outcome' = Material_scatter(material, in_ray, hit_record, draw, debug)
    /\ spc' = [op |-> "done", draw |-> draw]
    /\ UNCHANGED <<material, in_ray, hit_record, hitVars, colorVars, debug, renderVars>>

NextScatter == \E draw \in Draws(hit_record) : Scatter(draw)

SpecScatter == InitScatter /\ [][NextScatter]_vars

\* The fuzz-perturbed mirror reflection of Metal::scatter (fd times as long).
Perturbed ==
    VAdd(VScale(material.fuzz[2], Reflect(in_ray.direction, hit_record.normal)),
         VScale(material.fuzz[1], spc.draw.sample))

\* C5: for every ray, hit record and draw, Lambertian::scatter returns a scattering
\* with attenuation = albedo, Dielectric::scatter returns a scattering with
\* attenuation (1,1,1), and Metal::scatter returns a scattering with attenuation =
\* albedo exactly when the perturbed reflection has a positive dot product with the
\* normal, and none otherwise.
C5_ScatterOutcomes ==
    spc.op = "done" =>
        CASE material.kind = "Lambertian" ->
                outcome.some /\ outcome.attenuation = material.albedo
          [] material.kind = "Dielectric" ->
                outcome.some /\ outcome.attenuation = White
          [] material.kind = "Metal" ->
                IF Dot(Perturbed, hit_record.normal) > 0
                THEN outcome.some /\ outcome.attenuation = material.albedo
                ELSE outcome = Absorbed

\* C9: no scatter hands a zero direction to Ray::new: its assertion never fails
\* and no scattered ray has a direction that is the normalised zero vector.
C9_NoZeroDirection ==
    spc.op = "done" =>
        /\ ~(outcome.panic /\ outcome.why = "debug_assert")
        /\ outcome.some => ~IsNaNVec(outcome.scattered.direction)

\* C10: whenever refraction is possible the reflectance handed to gen_bool lies in
\* [0, 1], so the draw never fails and Dielectric::scatter returns; when it is
\* impossible the outgoing direction is the mirror reflection.
C10_ReflectanceIsProbability ==
    (spc.op = "done" /\ material.kind = "Dielectric") =>
        LET s == DielectricSetup(material, in_ray, hit_record)
        IN  IF s.refracted.some
            THEN /\ FLe(Fr(0), s.reflectance) /\ FLe(s.reflectance, Fr(1))
                 /\ outcome.some
            ELSE /\ outcome.some
                 /\ outcome.scattered.direction
                      = Reflect(in_ray.direction, hit_record.normal)

-----------------------------------------------------------------------------
(* Spec: color(ray, world, bounce, rng), main.rs *)

\* world.hits(ray, 0.001, f32::INFINITY)
T_MIN == <<1, 1000>>

ColorMaterials ==
    { Lambertian(Gray), Metal(Bronze, <<0, 1>>), Metal(Bronze, <<1, 1>>),
      Dielectric(<<3, 2>>), Dielectric(<<2, 1>>) }

\* The primary rays: from the origin along the y axis (towards and away from the
\* top of the sky) and along the z axis.
ColorDirs == {<<0, 1, 0>>, <<0, -1, 0>>, <<0, 0, 1>>}

\* Scenes of up to two unit spheres centred on the line of the primary ray, three
\* units before or behind its origin.
ColorSpheres(d) ==
    { [center |-> VScale(k, d), radius |-> 1, material |-> m] :
        k \in {3, -3}, m \in ColorMaterials }

\* The activation of color on top of the stack, and the result of its hit test.
Top == stack[Len(stack)]
TopHit == HittableList_hits(world, Top.ray, T_MIN, INFINITY)

\* The else branch of color: t = (ray.direction().y + 1) / 2, white.mix(&blue, t).
Background(r) ==
    IF IsNaNVec(r.direction) THEN NaNColor
    ELSE Mix(White, SkyBlue, <<r.direction[2] + 1, 2>>)

\* `bounce <= BOUNCES` for `bounce < BOUNCES`: one bounce too many.
MayBounceInclusive(bounce) == bounce <= BOUNCES
\* if bounce < BOUNCES
MayBounce(bounce) == bounce < BOUNCES

\* color(&ray, &scene, 0, &mut rng): the renderer starts every path at bounce 0.
Init ==
    /\ \E d \in ColorDirs :
          /\ world \in SeqsUpTo(ColorSpheres(d), 2)
          /\ stack = <<[ray |-> Ray_new(Zero, d), bounce |-> 0]>>
    /\ pc = "call"
    /\ retval = Black
    /\ debug \in BOOLEAN
    /\ HitsIdle /\ ScatterIdle /\ RenderIdle

\* The ray hits, the depth allows a bounce and the material scatters: color calls
\* itself on the scattered ray and will multiply the result by the attenuation.
ColorScatter ==
    /\ pc = "call"
    /\ TopHit.some
    /\ MayBounce(Top.bounce)
    /\ \E draw \in Draws(TopHit) :
          LET out == Material_scatter(TopHit.material, Top.ray, TopHit, draw, debug)
          IN  /\ DrawAllowed(TopHit.material, Top.ray, TopHit, draw)
              /\ out.some
              /\ stack' = Append(
                    [stack EXCEPT ![Len(stack)] =
                        [ray |-> Top.ray, bounce |-> Top.bounce,
                         attenuation |-> out.attenuation]],
                    [ray |-> out.scattered, bounce |-> Top.bounce + 1])
    /\ UNCHANGED <<world, pc, retval, debug, hitVars, scatterVars, renderVars>>

\* The ray hits, the depth allows a bounce and the material absorbs: black.
ColorAbsorb ==
    /\ pc = "call"
    /\ TopHit.some
    /\ MayBounce(Top.bounce)
    /\ \E draw \in Draws(TopHit) :
          LET out == Material_scatter(TopHit.material, Top.ray, TopHit, draw, debug)
          IN  /\ DrawAllowed(TopHit.material, Top.ray, TopHit, draw)
              /\ ~out.some /\ ~out.panic
    /\ retval' = Black
    /\ pc' = "return"
    /\ UNCHANGED <<world, stack, debug, hitVars, scatterVars, renderVars>>

\* scatter panics: the panic unwinds through every activation of color.
ColorPanic ==
    /\ pc = "call"
    /\ TopHit.some
    /\ MayBounce(Top.bounce)
    /\ \E draw \in Draws(TopHit) :
          LET out == Material_scatter(TopHit.material, Top.ray, TopHit, draw, debug)
          IN  /\ DrawAllowed(TopHit.material, Top.ray, TopHit, draw)
              /\ out.panic
    /\ pc' = "panic"
    /\ UNCHANGED <<world, stack, retval, debug, hitVars, scatterVars, renderVars>>

\* The ray hits and the depth allows no bounce: black.
ColorDepthLimit ==
    /\ pc = "call"
    /\ TopHit.some
    /\ ~MayBounce(Top.bounce)
    /\ retval' = Black
    /\ pc' = "return"
    /\ UNCHANGED <<world, stack, debug, hitVars, scatterVars, renderVars>>

\* The ray hits nothing: the background gradient.
ColorMiss ==
    /\ pc = "call"
    /\ ~TopHit.some
    /\ retval' = Background(Top.ray)
    /\ pc' = "return"
    /\ UNCHANGED <<world, stack, debug, hitVars, scatterVars, renderVars>>

\* A nested call returns to its caller, which returns attenuation * result.
ColorReturnToCaller ==
    /\ pc = "return"
    /\ Len(stack) > 1
    /\ LET caller == stack[Len(stack) - 1]
       IN  /\ retval' = ColorMul(caller.attenuation, retval)
           /\ stack' = Append(SubSeq(stack, 1, Len(stack) - 2),
                              [ray |-> caller.ray, bounce |-> caller.bounce])
    /\ UNCHANGED <<world, pc, debug, hitVars, scatterVars, renderVars>>

\* The outermost call returns: retval is the colour of the sample.
ColorReturnToRenderer ==
    /\ pc = "return"
    /\ Len(stack) = 1
    /\ pc' = "done"
    /\ UNCHANGED <<world, stack, retval, debug, hitVars, scatterVars, renderVars>>

Next ==
    \/ ColorScatter
    \/ ColorAbsorb
    \/ ColorPanic
    \/ ColorDepthLimit
    \/ ColorMiss
    \/ ColorReturnToCaller
    \/ ColorReturnToRenderer

Spec == Init /\ [][Next]_vars

BoundsHold ==
    (pc # "done" /\ stack[1].bounce = 0) =>
        /\ Len(stack) <= BOUNCES + 1
        /\ \A k \in 1..Len(stack) : stack[k].bounce = k - 1 /\ stack[k].bounce <= BOUNCES

\* C4: color started at bounce 0 returns, after at most BOUNCES scatter events and
\* at most BOUNCES + 1 nested calls, the bounce counter going up by one per call and
\* never beyond BOUNCES: in every state the bounds hold, and when color has stopped
\* it has returned.
C4_ReturnsWithinBounds ==
    /\ BoundsHold
    /\ (stack[1].bounce = 0 /\ pc \notin {"call", "return"}) => pc = "done"

\* The product of the attenuations of the first k activations.
RECURSIVE AccAttenuation(_)
AccAttenuation(k) ==
    IF k = 0 THEN White ELSE ColorMul(AccAttenuation(k - 1), stack[k].attenuation)

\* The accumulated attenuation never exceeds 1 and never grows with a bounce.
AttenuationBound ==
    \A k \in 1..(Len(stack) - 1) :
        /\ ColorLe(AccAttenuation(k), White)
        /\ ColorLe(AccAttenuation(k), AccAttenuation(k - 1))

\* C7: with attenuations in [0, 1] the accumulated attenuation is at most 1 in
\* every channel and non-increasing per bounce, so what each activation of color
\* returns is channel-wise at most what it received from the call it made, down
\* to the terminal value of the path.
C7_EnergyBound ==
    /\ AttenuationBound
    /\ (pc = "return" /\ Len(stack) > 1) =>
          ColorLe(ColorMul(stack[Len(stack) - 1].attenuation, retval), retval)

\* The same bound on the paths whose terminal value is a number.
EnergyBoundOnNumbers ==
    /\ AttenuationBound
    /\ (pc = "return" /\ Len(stack) > 1 /\ ~IsNaNColor(retval)) =>
          ColorLe(ColorMul(stack[Len(stack) - 1].attenuation, retval), retval)

-----------------------------------------------------------------------------
(* SpecRender: render_into(buf), main.rs *)

\* const WIDTH, const HEIGHT (main.rs:16-17).  The source sets 800 and 400; the
\* workers are checked for a small image, with more than one row and a row of more
\* than one pixel.
WIDTH == 2
HEIGHT == 3

Rows == 0..(HEIGHT - 1)
\* The packed colours a pixel can come out as; the buffer starts as zeros.
PixelValues == {1, 2}

Unlocked == [locked |-> FALSE]
\* buf_mutex.lock().unwrap() by the worker of a row.
LockedBy(row) == [locked |-> TRUE, by |-> row]

\* The range of a row started at `row` for `row * WIDTH`.
RowStartNoStride(row) == row
\* buf[row * WIDTH .. row * WIDTH + WIDTH]
RowStart(row) == row * WIDTH

InitRender ==
    /\ rpc = "for_each"
    /\ wpc = [row \in Rows |-> "start"]
    /\ temp = [row \in Rows |-> [c \in 1..WIDTH |-> 0]]
    /\ col = [row \in Rows |-> 0]
    /\ buf = [i \in 0..(WIDTH * HEIGHT - 1) |-> 0]
    /\ buf_mutex = Unlocked
    /\ writes = [i \in 0..(WIDTH * HEIGHT - 1) |-> << >>]
    /\ HitsIdle /\ ScatterIdle /\ ColorIdle /\ debug = Idle

\* The worker of a row fills temp: `for col in 0..WIDTH { ... temp[col] = ... }`.
RenderRow(row) ==
    /\ rpc = "for_each"
    /\ wpc[row] = "start"
    /\ \E t \in [1..WIDTH -> PixelValues] : temp' = [temp EXCEPT ![row] = t]
    /\ wpc' = [wpc EXCEPT ![row] = "rendered"]
    /\ UNCHANGED <<rpc, col, buf, buf_mutex, writes, hitVars, scatterVars, colorVars, debug>>

\* A sample of the row panics inside color.
RowPanics(row) ==
    /\ rpc = "for_each"
    /\ wpc[row] = "start"
    /\ wpc' = [wpc EXCEPT ![row] = "panicked"]
    /\ UNCHANGED <<rpc, temp, col, buf, buf_mutex, writes, hitVars, scatterVars, colorVars, debug>>

\* let mut buf = buf_mutex.lock().unwrap();
Lock(row) ==
    /\ wpc[row] = "rendered"
    /\ ~buf_mutex.locked
    /\ buf_mutex' = LockedBy(row)
    /\ wpc' = [wpc EXCEPT ![row] = "locked"]
    /\ UNCHANGED <<rpc, temp, col, buf, writes, hitVars, scatterVars, colorVars, debug>>

\* copy_from_slice(&temp), one element at a time.
CopyElement(row) ==
    /\ wpc[row] = "locked"
    /\ col[row] < WIDTH
    /\ LET i == RowStart(row) + col[row]
       IN  /\ buf' = [buf EXCEPT ![i] = temp[row][col[row] + 1]]
           /\ writes' = [writes EXCEPT ![i] =
                            Append(@, [row |-> row, mutex |-> buf_mutex])]
    /\ col' = [col EXCEPT ![row] = @ + 1]
    /\ UNCHANGED <<rpc, wpc, temp, buf_mutex, hitVars, scatterVars, colorVars, debug>>

\* The closure ends and the guard is dropped.
Unlock(row) ==
    /\ wpc[row] = "locked"
    /\ col[row] = WIDTH
    /\ buf_mutex' = Unlocked
    /\ wpc' = [wpc EXCEPT ![row] = "done"]
    /\ UNCHANGED <<rpc, temp, col, buf, writes, hitVars, scatterVars, colorVars, debug>>

\* for_each returns once every row is done.
RenderReturns ==
    /\ rpc = "for_each"
    /\ \A row \in Rows : wpc[row] = "done"
    /\ rpc' = "returned"
    /\ UNCHANGED <<wpc, temp, col, buf, buf_mutex, writes, hitVars, scatterVars, colorVars, debug>>

\* for_each resumes the panic of a worker once no row is under way.  The panic ends
\* the sequential run of rows it happened in, so rows not yet started may never run.
RenderUnwinds ==
    /\ rpc = "for_each"
    /\ \A row \in Rows : wpc[row] \in {"start", "done", "panicked"}
    /\ \E row \in Rows : wpc[row] = "panicked"
    /\ rpc' = "unwound"
    /\ UNCHANGED <<wpc, temp, col, buf, buf_mutex, writes, hitVars, scatterVars, colorVars, debug>>

NextRender ==
    \/ \E row \in Rows :
          RenderRow(row) \/ RowPanics(row) \/ Lock(row) \/ CopyElement(row) \/ Unlock(row)
    \/ RenderReturns
    \/ RenderUnwinds

SpecRender == InitRender /\ [][NextRender]_vars

\* C6: under every interleaving each worker writes only the range
\* [row * WIDTH, row * WIDTH + WIDTH) of its own row, no index is written by two
\* workers, every write happens while the writer holds the lock, and when
\* render_into returns every index has been written exactly once and holds what
\* its row rendered, whatever the order in which the workers finished.
C6_RaceFreeOutput ==
    /\ \A i \in DOMAIN writes :
          /\ Len(writes[i]) <= 1
          /\ \A k \in 1..Len(writes[i]) :
                /\ writes[i][k].row = i \div WIDTH
                /\ writes[i][k].mutex = LockedBy(writes[i][k].row)
    /\ \A row \in Rows : wpc[row] = "locked" => buf_mutex = LockedBy(row)
    /\ rpc = "returned" =>
          \A i \in DOMAIN buf :
              /\ Len(writes[i]) = 1
              /\ buf[i] = temp[i \div WIDTH][(i % WIDTH) + 1]

\* render_into has returned and the rows of the buffer hold different pixels.
C6_Witness ==
    /\ rpc = "returned"
    /\ \A i \in DOMAIN buf : Len(writes[i]) = 1
    /\ \E i, j \in DOMAIN buf : i \div WIDTH # j \div WIDTH /\ buf[i] # buf[j]

=============================================================================
